---- MODULE Spec2Model ----
(***************************************************************************)
(* State-machine model of packages/sweep-addon/python/sweep_predict.py:    *)
(* the next-edit prediction command (main, predict, get_model_path,        *)
(* build_prompt) together with the on-disk model cache it shares between   *)
(* invocations.                                                            *)
(*                                                                         *)
(* Texts (str) are sequences of tokens; a JSON value is a record tagged    *)
(* with its shape; a Python dict is a record whose DOMAIN is its key set;  *)
(* a dict with significant insertion order is a sequence of <<key, value>> *)
(* pairs.  One line printed with print(json.dumps(d)) is the dict d.       *)
(***************************************************************************)
EXTENDS Integers, Sequences, FiniteSets, TLC

VARIABLES
    pc,           \* pc[p]: position of process p in main/predict/get_model_path
    stdin,        \* stdin[p]: the text on standard input of the invocation
    input_data,   \* input_data[p]: result of json.loads (main, line 169)
    model_path,   \* model_path[p]: value returned by get_model_path (line 111)
    prompt,       \* prompt[p]: value returned by build_prompt (line 114)
    llm_call,     \* llm_call[p]: the arguments of the llm(...) call (line 134)
    result,       \* result[p]: dict returned by predict (line 180)
    stdout,       \* stdout[p]: objects printed to standard output, in order
    stderr,       \* stderr[p]: objects printed to standard error, in order
    exitCode,     \* exitCode[p]: process exit status, -1 while running
    output,       \* output[p]: what the llm(...) call returned (line 134)
    caught,       \* caught[p]: the exception an except clause of get_model_path or
                  \*   predict handled
    raised,       \* raised[p]: the exception that reached the except clauses of main
    trace,        \* trace[p]: the pipeline steps the invocation has executed
    modelPresent, \* MODEL_DIR / MODEL_FILENAME exists on disk
    dirPresent,   \* MODEL_DIR exists on disk
    network,      \* number of hf_hub_download calls made so far (registry accesses)
    invocations,  \* number of invocations started so far
    hook_pc,      \* position of the permission hook in its main
    hook_env,     \* os.environ of the permission hook
    hook_stdin,   \* text on the standard input of the permission hook
    hook_input,   \* input_data of the permission hook (line 25)
    hook_stdout,  \* objects the permission hook printed, in order
    hook_exit,    \* exit status of the permission hook, -1 while running
    hook_raised   \* the exception that left main of the permission hook

vars == <<pc, stdin, input_data, model_path, prompt, llm_call, result, stdout, stderr,
          exitCode, output, caught, raised, trace, modelPresent, dirPresent, network, invocations,
          hook_pc, hook_env, hook_stdin, hook_input, hook_stdout, hook_exit, hook_raised>>

procVars == <<pc, stdin, input_data, model_path, prompt, llm_call, result, stdout, stderr,
              exitCode, output, caught, raised, trace>>

diskVars == <<modelPresent, dirPresent, network>>

hookVars == <<hook_pc, hook_env, hook_stdin, hook_input, hook_stdout, hook_exit, hook_raised>>

-----------------------------------------------------------------------------
(* Bounds of the model *)

\* invocations of the command in one behaviour
MaxInvocations == 3

\* process slots (concurrent invocations of the command)
Procs == {1, 2}

\* entries of context_files and of recent_diffs in the requests that
\* exercise build_prompt
MaxContext == 2
MaxDiffs == 2

-----------------------------------------------------------------------------
(* Program constants *)

MODEL_REPO == "sweepai/sweep-next-edit-1.5B"
MODEL_FILENAME == "sweep-next-edit-1.5b.q8_0.v2.gguf"
MODEL_DIR == "~/.stackmemory/models/sweep"

\* the delimiter token of the prompt format and the newline used by join
file_sep == "<|file_sep|>"
NL == "\n"

DEFAULT_MAX_TOKENS == 512
DEFAULT_TEMPERATURE == 0
STOP == <<file_sep, "</s>">>

\* a local that has not been assigned; no exception
None == [shape |-> "None"]
NoException == [type |-> "none", message |-> ""]

-----------------------------------------------------------------------------
(* Texts and JSON values the invocations are given *)

Path1 == <<"a.py">>
Path2 == <<"b.py">>
Cur1 == <<"c", NL>>
Orig1 == <<"o", NL>>

GoodDiff == [file_path |-> Path2, original |-> <<"d">>, updated |-> <<"e">>]
NoUpdatedDiff == [file_path |-> Path2, original |-> <<"d">>]
NoPathDiff == [original |-> <<"d">>, updated |-> <<"e">>]

\* values of the optional request fields; "absent" leaves the key out
OptOriginal == {<<"absent">>, <<"is", Orig1>>}
OptDiffs == {<<"absent">>, <<"is", <<GoodDiff>>>>, <<"is", <<GoodDiff, NoUpdatedDiff>>>>,
             <<"is", <<NoPathDiff>>>>}
OptContext == {<<"absent">>, <<"is", << <<Path2, <<"k">> >> >> >>}

WithKey(d, k, opt) == IF opt[1] = "absent" THEN d ELSE d @@ (k :> opt[2])

\* dicts carrying both required keys
ValidDicts ==
    { WithKey(WithKey(WithKey([file_path |-> Path1, current_content |-> Cur1],
                              "original_content", o), "recent_diffs", d), "context_files", c)
        : o \in OptOriginal, d \in OptDiffs, c \in OptContext }
    \cup { [file_path |-> Path1, current_content |-> Cur1, max_tokens |-> 16, temperature |-> 1],
           [file_path |-> Path2, current_content |-> <<"z">>] }

\* dicts lacking a required key
PartialDicts ==
    { [file_path |-> Path1],
      [current_content |-> Cur1],
      [context_files |-> << >>],
      [current_content |-> Cur1, original_content |-> Orig1] \* no file_path
    }

RequiredNames == {"file_path", "current_content"}

JsonObjects == { [shape |-> "object", fields |-> d] : d \in ValidDicts \cup PartialDicts }
\* an array, by the set of its items that are strings
JsonArrays == { [shape |-> "array", items |-> s] : s \in SUBSET RequiredNames }
\* a string, by the set of names occurring in it as substrings
JsonStrings == { [shape |-> "string", items |-> s] : s \in SUBSET RequiredNames }
\* a number, true, false or null
JsonScalars == { [shape |-> "number"] }

JsonValues == JsonObjects \cup JsonArrays \cup JsonStrings \cup JsonScalars

\* tokens of the text on standard input
WsTok == [kind |-> "ws"]
JsonTok(v) == [kind |-> "json", value |-> v]
GarbageTok(m) == [kind |-> "garbage", msg |-> m]

ParserMessages == {"Expecting value: line 1 column 1 (char 0)",
                   "Extra data: line 1 column 3 (char 2)"}

InputTexts ==
    { << >>, <<WsTok>>, <<WsTok, WsTok>> }
    \cup { <<GarbageTok(m)>> : m \in ParserMessages }
    \cup { <<WsTok, GarbageTok(m), WsTok>> : m \in ParserMessages }
    \cup { <<JsonTok(v)>> : v \in JsonValues }
    \cup { <<WsTok, JsonTok([shape |-> "object", fields |-> [file_path |-> Path1, current_content |-> Cur1]]), WsTok>> }

\* what the inference backend can return from llm(...)
BackendOutputs ==
    { [text |-> <<"r", NL>>, completion_tokens |-> 4],
      [text |-> << >>, completion_tokens |-> 0] }

Latencies == {0, 7}

-----------------------------------------------------------------------------
(* Pure functions of the program *)

\* (variant) `if not input_text:` without the strip
Strip_identity(text) == text

RECURSIVE LStrip(_)
LStrip(text) ==
    IF Len(text) > 0 /\ Head(text).kind = "ws" THEN LStrip(Tail(text)) ELSE text

RECURSIVE RStrip(_)
RStrip(text) ==
    IF Len(text) > 0 /\ text[Len(text)].kind = "ws"
    THEN RStrip(SubSeq(text, 1, Len(text) - 1))
    ELSE text

\* str.strip(): the text without its leading and trailing whitespace
Strip(text) == RStrip(LStrip(text))

\* json.loads(text): the value, or the JSONDecodeError the parser raises
json_loads(text) ==
    LET body == Strip(text) IN
    IF Len(body) = 1 /\ body[1].kind = "json"
    THEN [ok |-> TRUE, value |-> body[1].value]
    ELSE [ok |-> FALSE,
          exc |-> [type |-> "JSONDecodeError",
                   message |-> IF Len(body) > 0 /\ body[1].kind = "garbage"
                               THEN body[1].msg
                               ELSE "Expecting value: line 1 column 1 (char 0)"]]

\* whether `name in v` can be evaluated (dict, list and str support it)
SupportsIn(v) == v.shape \in {"object", "array", "string"}

\* `name in v` for a dict (key), a list (item) or a str (substring)
Contains(v, name) ==
    IF v.shape = "object" THEN name \in DOMAIN v.fields ELSE name \in v.items

\* the TypeError of `name in v` for a value that is no container
NotIterable(v) ==
    [type |-> "TypeError", message |-> "argument of type 'int' is not iterable"]

\* the AttributeError of v.get(...) for a value that is no dict
NoGetAttribute(v) ==
    [type |-> "AttributeError",
     message |-> IF v.shape = "array"
                 THEN "'list' object has no attribute 'get'"
                 ELSE "'str' object has no attribute 'get'"]

\* dict.get(key, default)
Get(d, key, default) == IF key \in DOMAIN d THEN d[key] ELSE default

\* (variant) every part terminated by the separator, the last one too
RECURSIVE join_terminated(_, _)
join_terminated(sep, parts) ==
    IF Len(parts) = 0 THEN << >>
    ELSE parts[1] \o <<sep>> \o join_terminated(sep, Tail(parts))

\* sep.join(parts)
RECURSIVE join(_, _)
join(sep, parts) ==
    IF Len(parts) = 0 THEN << >>
    ELSE IF Len(parts) = 1 THEN parts[1]
    ELSE parts[1] \o <<sep>> \o join(sep, Tail(parts))

\* prompt_parts of the context files loop (lines 79-81)
RECURSIVE ContextParts(_)
ContextParts(context_files) ==
    IF Len(context_files) = 0 THEN << >>
    ELSE << <<file_sep>> \o context_files[1][1], context_files[1][2] >>
         \o ContextParts(Tail(context_files))

\* prompt_parts of the recent diffs loop (lines 84-89)
RECURSIVE DiffParts(_)
DiffParts(recent_diffs) ==
    IF Len(recent_diffs) = 0 THEN << >>
    ELSE LET diff == recent_diffs[1] IN
         << <<file_sep>> \o diff.file_path \o <<".diff">>,
            <<"original:">>,
            diff.original,
            <<"updated:">>,
            diff.updated >>
         \o DiffParts(Tail(recent_diffs))

\* the key whose lookup raises KeyError in the recent diffs loop, or "none"
RECURSIVE DiffKeyError(_)
DiffKeyError(recent_diffs) ==
    IF Len(recent_diffs) = 0 THEN "none"
    ELSE LET diff == recent_diffs[1] IN
         IF "file_path" \notin DOMAIN diff THEN "file_path"
         ELSE IF "original" \notin DOMAIN diff THEN "original"
         ELSE IF "updated" \notin DOMAIN diff THEN "updated"
         ELSE DiffKeyError(Tail(recent_diffs))

\* str(KeyError(key))
KeyErrorMessage(key) ==
    CASE key = "file_path" -> "'file_path'"
      [] key = "original" -> "'original'"
      [] OTHER -> "'updated'"

\* (variant) build_prompt without the trailing updated/ header
build_prompt_no_marker(context_files, recent_diffs, file_path, original_content, current_content) ==
    join(NL,
         ContextParts(context_files)
         \o DiffParts(recent_diffs)
         \o << <<file_sep, "original/">> \o file_path,
               original_content,
               <<file_sep, "current/">> \o file_path,
               current_content >>)

\* build_prompt for arguments on which it raises nothing
build_prompt(context_files, recent_diffs, file_path, original_content, current_content) ==
    join(NL,
         ContextParts(context_files)
         \o DiffParts(recent_diffs)
         \o << <<file_sep, "original/">> \o file_path,
               original_content,
               <<file_sep, "current/">> \o file_path,
               current_content,
               <<file_sep, "updated/">> \o file_path >>)

-----------------------------------------------------------------------------
(* Exception handlers and the dicts the program prints *)

NoInputEnvelope == [error |-> "no_input", message |-> "No input provided"]

\* the dict printed when a required field is missing (lines 173, 176)
MissingFieldEnvelope(name) ==
    [error |-> "missing_field",
     message |-> IF name = "file_path" THEN "file_path is required"
                 ELSE "current_content is required"]

\* (variant) only the check of lines 172-174
MissingRequired_first_only(v) ==
    IF ~Contains(v, "file_path") THEN "file_path" ELSE "none"

\* (variant) the two checks of lines 172-177 in the other order
MissingRequired_swapped(v) ==
    IF ~Contains(v, "current_content") THEN "current_content"
    ELSE IF ~Contains(v, "file_path") THEN "file_path"
    ELSE "none"

\* the first required field main finds missing, or "none" (lines 172-177)
MissingRequired(v) ==
    IF ~Contains(v, "file_path") THEN "file_path"
    ELSE IF ~Contains(v, "current_content") THEN "current_content"
    ELSE "none"

\* (variant) `except BaseException` as the last clause: sys.exit is caught too
main_except_base(exc) ==
    IF exc.type = "JSONDecodeError"
    THEN [print |-> << [error |-> "invalid_json", message |-> exc.message] >>, code |-> 1]
    ELSE [print |-> << [error |-> "unexpected", message |-> exc.message] >>, code |-> 1]

\* (variant) the `except Exception` clause placed first: it shadows the
\* JSONDecodeError clause
main_except_shadowed(exc) ==
    IF exc.type = "SystemExit"
    THEN [print |-> << >>, code |-> exc.code]
    ELSE [print |-> << [error |-> "unexpected", message |-> exc.message] >>, code |-> 1]

\* (variant) no `except Exception` clause: the interpreter prints a traceback
\* on standard error and exits with status 1
main_except_uncaught(exc) ==
    IF exc.type = "JSONDecodeError"
    THEN [print |-> << [error |-> "invalid_json", message |-> exc.message] >>, code |-> 1]
    ELSE IF exc.type = "SystemExit"
    THEN [print |-> << >>, code |-> exc.code]
    ELSE [print |-> << >>, code |-> 1]

\* the except clauses of main (lines 183-188): what is printed and the exit
\* status.  SystemExit derives from BaseException and passes both clauses.
main_except(exc) ==
    IF exc.type = "JSONDecodeError"
    THEN [print |-> << [error |-> "invalid_json", message |-> exc.message] >>, code |-> 1]
    ELSE IF exc.type = "SystemExit"
    THEN [print |-> << >>, code |-> exc.code]
    ELSE [print |-> << [error |-> "unexpected", message |-> exc.message] >>, code |-> 1]

\* the except clauses of get_model_path (lines 48-56): the dict printed
\* before sys.exit
get_model_path_except(exc) ==
    IF exc.type = "ImportError"
    THEN [error |-> "huggingface_hub not installed",
          message |-> "Run: pip install huggingface_hub llama-cpp-python"]
    ELSE [error |-> "download_failed", message |-> exc.message]

\* (variant) sys.exit(0) after the acquisition error is printed
get_model_path_exit_zero(exc) == 0

\* the status get_model_path passes to sys.exit (lines 53, 56)
get_model_path_exit(exc) == 1

\* the dict predict returns when llama_cpp cannot be imported (lines 105-109)
LlamaMissingResult ==
    [error |-> "llama_cpp not installed", message |-> "Run: pip install llama-cpp-python"]

\* (variant) the except clause of predict without the exception's text
predict_except_generic(exc) == [error |-> "prediction_failed", message |-> "prediction failed"]

\* the except clause of predict (lines 153-157)
predict_except(exc) == [error |-> "prediction_failed", message |-> exc.message]

\* (variant) tokens_generated counted from the returned text
PredictionResult_counted(fields, out, latency) ==
    [success |-> TRUE,
     predicted_content |-> out.text,
     file_path |-> fields["file_path"],
     latency_ms |-> latency,
     tokens_generated |-> Len(out.text)]

\* the dict predict returns on success (lines 143-151)
PredictionResult(fields, out, latency) ==
    [success |-> TRUE,
     predicted_content |-> out.text,
     file_path |-> fields["file_path"],
     latency_ms |-> latency,
     tokens_generated |-> out.completion_tokens]

-----------------------------------------------------------------------------
(* The state machine *)

Set(f, p, v) == [f EXCEPT ![p] = v]
Log(p, step) == trace' = [trace EXCEPT ![p] = Append(@, step)]

Running(p) == pc[p] \notin {"off", "idle", "done"}

\* the state of a process slot before its invocation reads anything
FreshProc(slots, texts) ==
    /\ pc = [p \in Procs |-> IF p \in slots THEN "read" ELSE "off"]
    /\ stdin \in [Procs -> texts \cup {<< >>}]
    /\ \A p \in Procs : IF p \in slots THEN stdin[p] \in texts ELSE stdin[p] = << >>
    /\ input_data = [p \in Procs |-> None]
    /\ model_path = [p \in Procs |-> << >>]
    /\ prompt = [p \in Procs |-> << >>]
    /\ llm_call = [p \in Procs |-> None]
    /\ result = [p \in Procs |-> None]
    /\ stdout = [p \in Procs |-> << >>]
    /\ stderr = [p \in Procs |-> << >>]
    /\ exitCode = [p \in Procs |-> -1]
    /\ output = [p \in Procs |-> None]
    /\ caught = [p \in Procs |-> NoException]
    /\ raised = [p \in Procs |-> NoException]
    /\ trace = [p \in Procs |-> << >>]

\* the permission hook is not running
HookOff ==
    /\ hook_pc = "off"
    /\ hook_env = << >>
    /\ hook_stdin = << >>
    /\ hook_input = None
    /\ hook_stdout = << >>
    /\ hook_exit = -1
    /\ hook_raised = NoException

\* one invocation about to read its input; the cache is cold or warm
Init ==
    /\ FreshProc({1}, InputTexts)
    /\ modelPresent \in BOOLEAN
    /\ dirPresent \in BOOLEAN
    /\ modelPresent => dirPresent
    /\ network = 0
    /\ invocations = 1
    /\ HookOff

\* the process ends: `printed` goes to standard output, `code` is its status
Terminate(p, printed, code, exc) ==
    /\ stdout' = [stdout EXCEPT ![p] = @ \o printed]
    /\ exitCode' = Set(exitCode, p, code)
    /\ raised' = Set(raised, p, exc)
    /\ pc' = Set(pc, p, "done")

\* an exception propagates to the except clauses of main
Raise(p, exc) ==
    LET h == main_except(exc) IN Terminate(p, h.print, h.code, exc)

\* print(json.dumps(obj)) followed by sys.exit(code), inside main's try block
PrintAndExit(p, obj, code) ==
    LET exit == [type |-> "SystemExit", message |-> "", code |-> code]
        h == main_except(exit)
    IN Terminate(p, <<obj>> \o h.print, h.code, exit)

\* a new invocation of the command, once the previous one has ended
Start(p) ==
    /\ pc[p] \in {"idle", "done"}
    /\ \A q \in Procs : ~Running(q)
    /\ invocations < MaxInvocations
    /\ invocations' = invocations + 1
    /\ \E text \in InputTexts : stdin' = Set(stdin, p, text)
    /\ pc' = Set(pc, p, "read")
    /\ input_data' = Set(input_data, p, None)
    /\ model_path' = Set(model_path, p, << >>)
    /\ prompt' = Set(prompt, p, << >>)
    /\ llm_call' = Set(llm_call, p, None)
    /\ result' = Set(result, p, None)
    /\ stdout' = Set(stdout, p, << >>)
    /\ stderr' = Set(stderr, p, << >>)
    /\ exitCode' = Set(exitCode, p, -1)
    /\ output' = Set(output, p, None)
    /\ caught' = Set(caught, p, NoException)
    /\ raised' = Set(raised, p, NoException)
    /\ trace' = Set(trace, p, << >>)
    /\ UNCHANGED diskVars
    /\ UNCHANGED hookVars

\* main, lines 164-167: read standard input, reject blank input
ReadInput(p) ==
    /\ pc[p] = "read"
    /\ Log(p, "read")
    /\ IF Len(Strip(stdin[p])) = 0
       THEN PrintAndExit(p, NoInputEnvelope, 1)
       ELSE /\ pc' = Set(pc, p, "parse")
            /\ UNCHANGED <<stdout, exitCode, raised>>
    /\ UNCHANGED <<stdin, input_data, model_path, prompt, llm_call, result, stderr,
                   invocations>>
    /\ UNCHANGED diskVars
    /\ UNCHANGED <<output, caught>>
    /\ UNCHANGED hookVars

\* main, line 169: json.loads
Parse(p) ==
    /\ pc[p] = "parse"
    /\ Log(p, "json.loads")
    /\ LET r == json_loads(stdin[p]) IN
       IF r.ok
       THEN /\ input_data' = Set(input_data, p, r.value)
            /\ pc' = Set(pc, p, "validate")
            /\ UNCHANGED <<stdout, exitCode, raised>>
       ELSE /\ Raise(p, r.exc)
            /\ UNCHANGED input_data
    /\ UNCHANGED <<stdin, model_path, prompt, llm_call, result, stderr, invocations>>
    /\ UNCHANGED diskVars
    /\ UNCHANGED <<output, caught>>
    /\ UNCHANGED hookVars

\* main, lines 172-177: the required fields
Validate(p) ==
    /\ pc[p] = "validate"
    /\ Log(p, "validate")
    /\ IF ~SupportsIn(input_data[p])
       THEN Raise(p, NotIterable(input_data[p]))
       ELSE LET missing == MissingRequired(input_data[p]) IN
            IF missing # "none"
            THEN PrintAndExit(p, MissingFieldEnvelope(missing), 1)
            ELSE /\ pc' = Set(pc, p, "predict")
                 /\ UNCHANGED <<stdout, exitCode, raised>>
    /\ UNCHANGED <<stdin, input_data, model_path, prompt, llm_call, result, stderr,
                   invocations>>
    /\ UNCHANGED diskVars
    /\ UNCHANGED <<output, caught>>
    /\ UNCHANGED hookVars

\* (variant) predict goes from the import straight to build_prompt: the
\* model path is not resolved
ImportLlama_unresolved(p) ==
    /\ pc[p] = "predict"
    /\ Log(p, "predict")
    /\ \/ /\ pc' = Set(pc, p, "build_prompt")
          /\ UNCHANGED <<result, stdout, exitCode, raised>>
       \/ /\ result' = Set(result, p, LlamaMissingResult)
          /\ pc' = Set(pc, p, "emit")
          /\ UNCHANGED <<stdout, exitCode, raised>>
    /\ UNCHANGED <<stdin, input_data, model_path, prompt, llm_call, stderr, invocations>>
    /\ UNCHANGED diskVars
    /\ UNCHANGED <<output, caught>>
    /\ UNCHANGED hookVars

\* predict, lines 103-109: import the inference runtime
ImportLlama(p) ==
    /\ pc[p] = "predict"
    /\ Log(p, "predict")
    /\ \/ /\ pc' = Set(pc, p, "get_model_path")
          /\ UNCHANGED <<result, stdout, exitCode, raised>>
       \/ /\ result' = Set(result, p, LlamaMissingResult)
          /\ pc' = Set(pc, p, "emit")
          /\ UNCHANGED <<stdout, exitCode, raised>>
       \/ /\ Raise(p, [type |-> "RuntimeError",
                       message |-> "Failed to load shared library"])
          /\ UNCHANGED result
    /\ UNCHANGED <<stdin, input_data, model_path, prompt, llm_call, stderr, invocations>>
    /\ UNCHANGED diskVars
    /\ UNCHANGED <<output, caught>>
    /\ UNCHANGED hookVars

\* (variant) the existence test always fails
model_path_exists_never == FALSE

\* model_path.exists() (line 26)
model_path_exists == modelPresent

\* get_model_path, lines 24-30: the cache-hit fast path
ModelExists(p) ==
    /\ pc[p] = "get_model_path"
    /\ Log(p, "exists")
    /\ IF model_path_exists
       THEN /\ model_path' = Set(model_path, p, <<MODEL_DIR, MODEL_FILENAME>>)
            /\ pc' = Set(pc, p, "build_prompt")
            /\ UNCHANGED stderr
       ELSE /\ stderr' = Set(stderr, p, Append(stderr[p],
                             [status |-> "downloading",
                              message |-> "Downloading Sweep 1.5B model..."]))
            /\ pc' = Set(pc, p, "download")
            /\ UNCHANGED model_path
    /\ UNCHANGED <<stdin, input_data, prompt, llm_call, result, stdout, exitCode, raised,
                   invocations>>
    /\ UNCHANGED diskVars
    /\ UNCHANGED <<output, caught>>
    /\ UNCHANGED hookVars

\* what the try block of get_model_path can raise (lines 33-45)
HubImportError == [type |-> "ImportError", message |-> "No module named 'huggingface_hub'"]
MkdirError == [type |-> "PermissionError", message |-> "Permission denied"]
FetchError == [type |-> "ConnectionError", message |-> "Connection refused"]

\* (variants of Download) retry: a failed fetch is attempted again instead of
\* ending the process; partial: a failed fetch leaves a file under the
\* filename; recheck: the existence test is repeated before the fetch and a
\* file stored meanwhile is used
DownloadVariant(p, retry, partial, recheck) ==
    /\ pc[p] = "download"
    /\ Log(p, "download")
    /\ \/ /\ caught' = Set(caught, p, HubImportError)
          /\ PrintAndExit(p, get_model_path_except(HubImportError),
                          get_model_path_exit(HubImportError))
          /\ UNCHANGED <<model_path, stderr, modelPresent, dirPresent, network>>
       \/ /\ ~dirPresent
          /\ caught' = Set(caught, p, MkdirError)
          /\ PrintAndExit(p, get_model_path_except(MkdirError),
                          get_model_path_exit(MkdirError))
          /\ UNCHANGED <<model_path, stderr, modelPresent, dirPresent, network>>
       \/ /\ ~(recheck /\ modelPresent)
          /\ dirPresent' = TRUE
          /\ network' = network + 1
          /\ caught' = Set(caught, p, FetchError)
          /\ modelPresent' = (modelPresent \/ partial)
          /\ IF retry
             THEN UNCHANGED <<pc, stdout, exitCode, raised>>
             ELSE PrintAndExit(p, get_model_path_except(FetchError),
                               get_model_path_exit(FetchError))
          /\ UNCHANGED <<model_path, stderr>>
       \/ /\ dirPresent' = TRUE
          /\ network' = IF recheck /\ modelPresent THEN network ELSE network + 1
          /\ modelPresent' = TRUE
          /\ stderr' = Set(stderr, p, Append(stderr[p],
                           [status |-> "downloaded", path |-> <<MODEL_DIR, MODEL_FILENAME>>]))
          /\ model_path' = Set(model_path, p, <<MODEL_DIR, MODEL_FILENAME>>)
          /\ pc' = Set(pc, p, "build_prompt")
          /\ UNCHANGED <<stdout, exitCode, raised, caught>>
    /\ UNCHANGED <<stdin, input_data, prompt, llm_call, result, output, invocations>>
    /\ UNCHANGED hookVars

Download_retry(p) == DownloadVariant(p, TRUE, FALSE, FALSE)
Download_partial(p) == DownloadVariant(p, FALSE, TRUE, FALSE)
Download_recheck(p) == DownloadVariant(p, FALSE, FALSE, TRUE)

\* get_model_path, lines 32-56: fetch the artifact from the registry
Download(p) ==
    /\ pc[p] = "download"
    /\ Log(p, "download")
    /\ \/ \* line 33: the download capability is not installed
          /\ caught' = Set(caught, p, HubImportError)
          /\ PrintAndExit(p, get_model_path_except(HubImportError),
                          get_model_path_exit(HubImportError))
          /\ UNCHANGED <<model_path, stderr, modelPresent, dirPresent, network>>
       \/ \* line 35: the cache directory cannot be created
          /\ ~dirPresent
          /\ caught' = Set(caught, p, MkdirError)
          /\ PrintAndExit(p, get_model_path_except(MkdirError),
                          get_model_path_exit(MkdirError))
          /\ UNCHANGED <<model_path, stderr, modelPresent, dirPresent, network>>
       \/ \* lines 37-43: the fetch fails, nothing is stored under the filename
          /\ dirPresent' = TRUE
          /\ network' = network + 1
          /\ caught' = Set(caught, p, FetchError)
          /\ PrintAndExit(p, get_model_path_except(FetchError),
                          get_model_path_exit(FetchError))
          /\ UNCHANGED <<model_path, stderr, modelPresent>>
       \/ \* lines 37-46: the fetch succeeds
          /\ dirPresent' = TRUE
          /\ network' = network + 1
          /\ modelPresent' = TRUE
          /\ stderr' = Set(stderr, p, Append(stderr[p],
                           [status |-> "downloaded", path |-> <<MODEL_DIR, MODEL_FILENAME>>]))
          /\ model_path' = Set(model_path, p, <<MODEL_DIR, MODEL_FILENAME>>)
          /\ pc' = Set(pc, p, "build_prompt")
          /\ UNCHANGED <<stdout, exitCode, raised, caught>>
    /\ UNCHANGED <<stdin, input_data, prompt, llm_call, result, output, invocations>>
    /\ UNCHANGED hookVars

\* (variant) `input_data.get("original_content") or input_data["current_content"]`:
\* an empty original_content is replaced too
PromptArgs_falsy(d) ==
    [context_files |-> Get(d, "context_files", << >>),
     recent_diffs |-> Get(d, "recent_diffs", << >>),
     file_path |-> d["file_path"],
     original_content |-> IF Len(Get(d, "original_content", << >>)) = 0
                          THEN d["current_content"]
                          ELSE d["original_content"],
     current_content |-> d["current_content"]]

\* predict, lines 115-119: the arguments build_prompt is called with
PromptArgs(d) ==
    [context_files |-> Get(d, "context_files", << >>),
     recent_diffs |-> Get(d, "recent_diffs", << >>),
     file_path |-> d["file_path"],
     original_content |-> Get(d, "original_content", d["current_content"]),
     current_content |-> d["current_content"]]

\* predict, lines 113-120: build the prompt
BuildPrompt(p) ==
    /\ pc[p] = "build_prompt"
    /\ Log(p, "build_prompt")
    /\ IF input_data[p].shape # "object"
       THEN /\ Raise(p, NoGetAttribute(input_data[p]))
            /\ UNCHANGED prompt
       ELSE LET a == PromptArgs(input_data[p].fields)
                key == DiffKeyError(a.recent_diffs)
            IN IF key # "none"
               THEN /\ Raise(p, [type |-> "KeyError", message |-> KeyErrorMessage(key)])
                    /\ UNCHANGED prompt
               ELSE /\ prompt' = Set(prompt, p,
                                     build_prompt(a.context_files, a.recent_diffs,
                                                  a.file_path, a.original_content,
                                                  a.current_content))
                    /\ pc' = Set(pc, p, "load")
                    /\ UNCHANGED <<stdout, exitCode, raised>>
    /\ UNCHANGED <<stdin, input_data, model_path, llm_call, result, stderr, invocations>>
    /\ UNCHANGED diskVars
    /\ UNCHANGED <<output, caught>>
    /\ UNCHANGED hookVars

\* what loading the model or generating can raise (lines 124-150)
LoadErrors == { [type |-> "ValueError", message |-> "Failed to load model from file"] }
GenerateErrors == { [type |-> "RuntimeError", message |-> "out of memory"],
                    [type |-> "ValueError",
                     message |-> "Requested tokens exceed context window"] }

\* predict, lines 123-129: load the model
LoadModel(p) ==
    /\ pc[p] = "load"
    /\ Log(p, "load")
    /\ \/ /\ pc' = Set(pc, p, "generate")
          /\ UNCHANGED <<result, caught>>
       \/ \E exc \in LoadErrors :
            /\ caught' = Set(caught, p, exc)
            /\ result' = Set(result, p, predict_except(exc))
            /\ pc' = Set(pc, p, "emit")
    /\ UNCHANGED <<stdin, input_data, model_path, prompt, llm_call, stdout, stderr,
                   exitCode, output, raised, invocations>>
    /\ UNCHANGED diskVars
    /\ UNCHANGED hookVars

\* predict, lines 131-157: generate the completion
Generate(p) ==
    /\ pc[p] = "generate"
    /\ Log(p, "generate")
    /\ llm_call' = Set(llm_call, p,
                       [prompt |-> prompt[p],
                        max_tokens |-> Get(input_data[p].fields, "max_tokens",
                                           DEFAULT_MAX_TOKENS),
                        temperature |-> Get(input_data[p].fields, "temperature",
                                            DEFAULT_TEMPERATURE),
                        stop |-> STOP])
    /\ \/ \E out \in BackendOutputs, latency \in Latencies :
            /\ output' = Set(output, p, out)
            /\ result' = Set(result, p,
                             PredictionResult(input_data[p].fields, out, latency))
            /\ UNCHANGED caught
       \/ \E exc \in GenerateErrors :
            /\ caught' = Set(caught, p, exc)
            /\ result' = Set(result, p, predict_except(exc))
            /\ UNCHANGED output
    /\ pc' = Set(pc, p, "emit")
    /\ UNCHANGED <<stdin, input_data, model_path, prompt, stdout, stderr, exitCode,
                   raised, invocations>>
    /\ UNCHANGED diskVars
    /\ UNCHANGED hookVars

\* main, line 181: print the dict predict returned; main returns
Emit(p) ==
    /\ pc[p] = "emit"
    /\ Log(p, "print")
    /\ Terminate(p, <<result[p]>>, 0, NoException)
    /\ UNCHANGED <<stdin, input_data, model_path, prompt, llm_call, result, stderr,
                   invocations>>
    /\ UNCHANGED diskVars
    /\ UNCHANGED <<output, caught>>
    /\ UNCHANGED hookVars

Next ==
    \E p \in Procs :
        \/ Start(p)
        \/ ReadInput(p)
        \/ Parse(p)
        \/ Validate(p)
        \/ ImportLlama(p)
        \/ ModelExists(p)
        \/ Download(p)
        \/ BuildPrompt(p)
        \/ LoadModel(p)
        \/ Generate(p)
        \/ Emit(p)

\* invocations of the command one after the other
Spec == Init /\ [][Next]_vars

\* the requests of two invocations started at the same time
RaceTexts ==
    { <<JsonTok([shape |-> "object", fields |-> d])>> :
        d \in { [file_path |-> Path1, current_content |-> Cur1],
                [file_path |-> Path2, current_content |-> <<"z">>] } }

\* two invocations about to read their input, no lock between them
InitRace ==
    /\ FreshProc(Procs, RaceTexts)
    /\ modelPresent \in BOOLEAN
    /\ dirPresent \in BOOLEAN
    /\ modelPresent => dirPresent
    /\ network = 0
    /\ invocations = 2
    /\ HookOff

\* two concurrent invocations sharing the model cache
SpecRace == InitRace /\ [][Next]_vars

\* the sequences over S of at most n entries
SeqsUpTo(S, n) == UNION { [1..k -> S] : k \in 0..n }

Path3 == <<"lib", "/", "c.py">>
CurSep == <<file_sep, "x">>
OtherDiff == [file_path |-> Path1, original |-> << >>, updated |-> <<"u", NL>>]

\* context_files dicts: insertion-ordered, keys unique
ContextDicts ==
    { c \in SeqsUpTo({ <<Path2, <<"k">> >>, <<Path3, <<"m", NL, "n">> >>,
                       <<Path1, << >> >> }, MaxContext) :
        \A i, j \in DOMAIN c : c[i][1] = c[j][1] => i = j }

DiffLists == SeqsUpTo({GoodDiff, OtherDiff}, MaxDiffs)

\* a key is left out when its value would be empty
OptOf(v) == IF Len(v) = 0 THEN <<"absent">> ELSE <<"is", v>>

\* requests that pass validation and on which build_prompt raises nothing
PromptDicts ==
    { WithKey(WithKey(WithKey([file_path |-> Path1, current_content |-> cur],
                              "original_content", o), "recent_diffs", OptOf(d)),
              "context_files", OptOf(c))
        : cur \in {Cur1, CurSep},
          o \in {<<"absent">>, <<"is", << >> >>, <<"is", Orig1>>},
          d \in DiffLists,
          c \in ContextDicts }

PromptTexts == { <<JsonTok([shape |-> "object", fields |-> d])>> : d \in PromptDicts }

\* one invocation about to read a request that exercises build_prompt
InitPrompt ==
    /\ FreshProc({1}, PromptTexts)
    /\ modelPresent \in BOOLEAN
    /\ dirPresent \in BOOLEAN
    /\ modelPresent => dirPresent
    /\ network = 0
    /\ invocations = 1
    /\ HookOff

\* invocations whose first request exercises build_prompt
SpecPrompt == InitPrompt /\ [][Next]_vars

-----------------------------------------------------------------------------
(* The permission hook, cluster-hooks/block-ask-user-question.py *)

FLAG == "ZEROSHOT_BLOCK_ASK_USER"

\* a JSON string, by its text
Str(s) == [shape |-> "string", text |-> s]

\* environments of the hook: the flag unset, set to "1", set to something else
HookEnvs ==
    { [PATH |-> "/usr/bin"],
      [PATH |-> "/usr/bin", ZEROSHOT_BLOCK_ASK_USER |-> "1"],
      [PATH |-> "/usr/bin", ZEROSHOT_BLOCK_ASK_USER |-> "0"],
      [PATH |-> "/usr/bin", ZEROSHOT_BLOCK_ASK_USER |-> "true"],
      [PATH |-> "/usr/bin", ZEROSHOT_BLOCK_ASK_USER |-> ""] }

\* dicts a PreToolUse event can carry
HookDicts ==
    { [tool_name |-> Str("AskUserQuestion")],
      [tool_name |-> Str("AskUserQuestion"), tool_input |-> Str("which one?")],
      [tool_name |-> Str("Bash"), tool_input |-> Str("ls")],
      [tool_name |-> Str("askuserquestion")],
      [tool_name |-> Str("")],
      [tool_name |-> [shape |-> "number"]],
      [tool_name |-> [shape |-> "array", items |-> {"AskUserQuestion"}]],
      [tool_input |-> Str("AskUserQuestion")] }

HookValues ==
    { [shape |-> "object", fields |-> d] : d \in HookDicts }
    \cup { [shape |-> "array", items |-> { }],
           [shape |-> "array", items |-> {"AskUserQuestion"}],
           Str("AskUserQuestion"),
           [shape |-> "number"] }

HookTexts ==
    { << >>, <<WsTok>> }
    \cup { <<GarbageTok(m)>> : m \in ParserMessages }
    \cup { <<JsonTok(v)>> : v \in HookValues }
    \cup { <<WsTok, JsonTok([shape |-> "object", fields |-> [tool_name |-> Str("AskUserQuestion")]]),
             WsTok>> }

\* (variant) `if not os.environ.get(FLAG):`, any non-empty value activates
Activated_truthy(env) == FLAG \in DOMAIN env /\ env[FLAG] # ""

\* line 20: os.environ.get("ZEROSHOT_BLOCK_ASK_USER") is "1"
Activated(env) == FLAG \in DOMAIN env /\ env[FLAG] = "1"

\* lines 34-45: the decision printed for AskUserQuestion
DenyOutput ==
    [hookSpecificOutput |->
        [hookEventName |-> "PreToolUse",
         permissionDecision |-> "deny",
         permissionDecisionReason |-> "AskUserQuestion is BLOCKED in zeroshot cluster mode."]]

\* the AttributeError of input_data.get for JSON that is no object (line 30)
HookAttributeError(v) ==
    [type |-> "AttributeError",
     message |-> IF v.shape = "array" THEN "'list' object has no attribute 'get'"
                 ELSE IF v.shape = "string" THEN "'str' object has no attribute 'get'"
                 ELSE "'int' object has no attribute 'get'"]

\* sys.exit(code), after printing `printed`
HookExit(printed, code) ==
    /\ hook_stdout' = hook_stdout \o printed
    /\ hook_exit' = code
    /\ hook_pc' = "done"
    /\ UNCHANGED hook_raised

\* the hook when Claude is about to use a tool
InitHook ==
    /\ FreshProc({ }, { })
    /\ modelPresent = FALSE
    /\ dirPresent = FALSE
    /\ network = 0
    /\ invocations = 0
    /\ hook_pc = "env"
    /\ hook_env \in HookEnvs
    /\ hook_stdin \in HookTexts
    /\ hook_input = None
    /\ hook_stdout = << >>
    /\ hook_exit = -1
    /\ hook_raised = NoException

\* lines 20-22: pass through unless the flag is "1"
HookCheckEnv ==
    /\ hook_pc = "env"
    /\ IF Activated(hook_env)
       THEN /\ hook_pc' = "load"
            /\ UNCHANGED <<hook_stdout, hook_exit, hook_raised>>
       ELSE HookExit(<< >>, 0)
    /\ UNCHANGED <<hook_env, hook_stdin, hook_input>>
    /\ UNCHANGED <<procVars, diskVars, invocations>>

\* lines 24-28: json.load(sys.stdin); a JSONDecodeError lets the call through
HookLoad ==
    /\ hook_pc = "load"
    /\ LET r == json_loads(hook_stdin) IN
         IF r.ok
         THEN /\ hook_input' = r.value
              /\ hook_pc' = "tool"
              /\ UNCHANGED <<hook_stdout, hook_exit, hook_raised>>
         ELSE /\ HookExit(<< >>, 0)
              /\ UNCHANGED hook_input
    /\ UNCHANGED <<hook_env, hook_stdin>>
    /\ UNCHANGED <<procVars, diskVars, invocations>>

\* lines 30-50: deny AskUserQuestion, pass every other tool; no except clause
\* is around input_data.get, so its AttributeError ends the process with the
\* interpreter's status 1
HookDecide ==
    /\ hook_pc = "tool"
    /\ IF hook_input.shape # "object"
       THEN /\ hook_raised' = HookAttributeError(hook_input)
            /\ hook_exit' = 1
            /\ hook_pc' = "done"
            /\ UNCHANGED hook_stdout
       ELSE LET tool_name == Get(hook_input.fields, "tool_name", Str("")) IN
            IF tool_name = Str("AskUserQuestion")
            THEN HookExit(<<DenyOutput>>, 0)
            ELSE HookExit(<< >>, 0)
    /\ UNCHANGED <<hook_env, hook_stdin, hook_input>>
    /\ UNCHANGED <<procVars, diskVars, invocations>>

NextHook ==
    \/ HookCheckEnv
    \/ HookLoad
    \/ HookDecide

\* one run of the permission hook
SpecHook == InitHook /\ [][NextHook]_vars

-----------------------------------------------------------------------------
(* Vocabulary of the properties *)

Done(p) == pc[p] = "done"
Has(p, step) == \E i \in DOMAIN trace[p] : trace[p][i] = step

IsPredictionResult(o) ==
    /\ DOMAIN o = {"success", "predicted_content", "file_path", "latency_ms",
                   "tokens_generated"}
    /\ o.success = TRUE
IsErrorEnvelope(o) ==
    /\ {"error", "message"} \subseteq DOMAIN o
    /\ "success" \notin DOMAIN o

\* the text holds nothing but whitespace
Blank(text) == \A i \in DOMAIN text : text[i].kind = "ws"
\* the text is not blank and is not JSON
Unparseable(text) == \E i \in DOMAIN text : text[i].kind = "garbage"
ParserMessage(text) == text[CHOOSE i \in DOMAIN text : text[i].kind = "garbage"].msg

\* the invocation parsed its input and the value is a JSON object
ParsedObject(p) == input_data[p].shape = "object"
\* the invocation parsed its input and the value is no JSON object
ParsedNonObject(p) == input_data[p].shape \in {"array", "string", "number"}

\* model acquisition failed: the download step ran and returned no path
AcquisitionFailed(p) == Done(p) /\ Has(p, "download") /\ Len(model_path[p]) = 0

-----------------------------------------------------------------------------
(* Properties *)

\* C1: an invocation never has more than one object on standard output, and
\* one that has terminated has exactly one, a PredictionResult or an
\* ErrorEnvelope, on every path.
C1_ExactlyOneObject ==
    \A p \in Procs :
        /\ Len(stdout[p]) <= 1
        /\ Done(p) =>
             /\ Len(stdout[p]) = 1
             /\ IsPredictionResult(stdout[p][1]) # IsErrorEnvelope(stdout[p][1])

\* a cold-cache run that printed both progress messages and then a result
C1_Witness ==
    /\ Done(1)
    /\ Has(1, "download")
    /\ Len(stderr[1]) = 2
    /\ Len(stdout[1]) = 1
    /\ IsPredictionResult(stdout[1][1])

\* C2 as stated: when model acquisition fails (download capability missing,
\* or the download raises), the error envelope is printed and the process
\* exits with status 0.
C2_AcquisitionFailureExitsZero ==
    \A p \in Procs :
        AcquisitionFailed(p) =>
            /\ Len(stdout[p]) = 1
            /\ IsErrorEnvelope(stdout[p][1])
            /\ exitCode[p] = 0

\* C2 amended: when model acquisition fails, the corresponding error envelope
\* is printed and the process exits with status 1.
C2_AcquisitionFailureExitsOne ==
    \A p \in Procs :
        AcquisitionFailed(p) =>
            /\ stdout[p] =
                 << IF caught[p].type = "ImportError"
                    THEN [error |-> "huggingface_hub not installed",
                          message |-> "Run: pip install huggingface_hub llama-cpp-python"]
                    ELSE [error |-> "download_failed", message |-> caught[p].message] >>
            /\ exitCode[p] = 1

\* a validated request whose download raised a network error
C2_Witness ==
    /\ AcquisitionFailed(1)
    /\ Has(1, "predict")
    /\ caught[1].type = "ConnectionError"
    /\ network = 1

\* C3: an exception raised while the model is loaded or the completion is
\* generated is reported as prediction_failed with the exception's message,
\* with exit status 0, and never reaches the except clauses of main.
C3_PredictionFailedReported ==
    \A p \in Procs :
        (Done(p) /\ Has(p, "load") /\ caught[p].type # "none") =>
            /\ stdout[p] = << [error |-> "prediction_failed",
                               message |-> caught[p].message] >>
            /\ exitCode[p] = 0
            /\ raised[p] = NoException

\* generation raised after the model was loaded
C3_Witness ==
    /\ Done(1)
    /\ Has(1, "generate")
    /\ caught[1] = [type |-> "RuntimeError", message |-> "out of memory"]

\* C4 as stated: a request object without file_path yields a missing_field
\* envelope carrying a field entry "file_path" and exit status 1; one with
\* file_path and without current_content yields a field entry
\* "current_content" and exit status 1.
C4_MissingFieldCarriesField ==
    \A p \in Procs :
        (Done(p) /\ ParsedObject(p)
                 /\ RequiredNames \ DOMAIN input_data[p].fields # {}) =>
            /\ Len(stdout[p]) = 1
            /\ stdout[p][1].error = "missing_field"
            /\ "field" \in DOMAIN stdout[p][1]
            /\ stdout[p][1].field = IF "file_path" \notin DOMAIN input_data[p].fields
                                    THEN "file_path" ELSE "current_content"
            /\ exitCode[p] = 1

\* C4 amended: the envelope names the field in its message only; it is
\* exactly {error: "missing_field", message: "<field> is required"}.
C4_MissingFieldMessage ==
    \A p \in Procs :
        (Done(p) /\ ParsedObject(p)
                 /\ RequiredNames \ DOMAIN input_data[p].fields # {}) =>
            /\ stdout[p] =
                 << [error |-> "missing_field",
                     message |-> IF "file_path" \notin DOMAIN input_data[p].fields
                                 THEN "file_path is required"
                                 ELSE "current_content is required"] >>
            /\ exitCode[p] = 1

\* a request object with neither required field, reported as file_path
C4_Witness ==
    /\ Done(1)
    /\ ParsedObject(1)
    /\ RequiredNames \cap DOMAIN input_data[1].fields = {}
    /\ Len(stdout[1]) = 1
    /\ stdout[1][1].message = "file_path is required"

\* C5: blank standard input yields the no_input envelope and exit status 1;
\* the JSON parser and predict are never reached.
C5_BlankInput ==
    \A p \in Procs :
        (Done(p) /\ Blank(stdin[p])) =>
            /\ stdout[p] = << [error |-> "no_input", message |-> "No input provided"] >>
            /\ exitCode[p] = 1
            /\ ~Has(p, "json.loads")
            /\ ~Has(p, "predict")
            /\ input_data[p] = None

\* whitespace-only input has been rejected
C5_Witness ==
    /\ Done(1)
    /\ Len(stdin[1]) = 2
    /\ Blank(stdin[1])
    /\ exitCode[1] = 1

\* C6: input that is not blank and not JSON yields the invalid_json envelope
\* with the parser's message and exit status 1, never the unexpected kind.
C6_InvalidJson ==
    \A p \in Procs :
        (Done(p) /\ Unparseable(stdin[p])) =>
            /\ stdout[p] = << [error |-> "invalid_json",
                               message |-> ParserMessage(stdin[p])] >>
            /\ exitCode[p] = 1

\* unparseable input surrounded by whitespace has been rejected
C6_Witness ==
    /\ Done(1)
    /\ Len(stdin[1]) = 3
    /\ Unparseable(stdin[1])
    /\ Len(stdout[1]) = 1
    /\ stdout[1][1].message = "Extra data: line 1 column 3 (char 2)"

\* C7: across a sequence of invocations, once the artifact is present it
\* stays present, no step accesses the registry or enters the download, and
\* model resolution returns the cached path at once without a progress
\* message.
C7_NeverRedownloaded ==
    [][modelPresent =>
         /\ modelPresent'
         /\ network' = network
         /\ \A p \in Procs :
              /\ pc'[p] # "download"
              /\ (pc[p] = "get_model_path" /\ pc'[p] # pc[p]) =>
                    /\ pc'[p] = "build_prompt"
                    /\ model_path'[p] = <<MODEL_DIR, MODEL_FILENAME>>
                    /\ stderr'[p] = stderr[p]]_vars

\* an earlier invocation downloaded the artifact, a later one hit the cache
C7_Witness ==
    /\ modelPresent
    /\ network = 1
    /\ invocations >= 2
    /\ Has(1, "exists")
    /\ ~Has(1, "download")
    /\ model_path[1] = <<MODEL_DIR, MODEL_FILENAME>>

\* C8: when the backend returns a completion, the printed object is a
\* PredictionResult with the returned text unchanged, the request's
\* file_path, the backend's completion-token count, and exit status 0.
C8_SuccessResult ==
    \A p \in Procs :
        (Done(p) /\ "text" \in DOMAIN output[p]) =>
            /\ Len(stdout[p]) = 1
            /\ IsPredictionResult(stdout[p][1])
            /\ stdout[p][1].predicted_content = output[p].text
            /\ stdout[p][1].file_path = Strip(stdin[p])[1].value.fields.file_path
            /\ stdout[p][1].tokens_generated = output[p].completion_tokens
            /\ stdout[p][1].latency_ms >= 0
            /\ exitCode[p] = 0

\* a completion of two text tokens and four generated tokens was returned
C8_Witness ==
    /\ Done(1)
    /\ "text" \in DOMAIN output[1]
    /\ Len(output[1].text) = 2
    /\ output[1].completion_tokens = 4
    /\ exitCode[1] = 0

\* the request object carries a recent_diffs entry that lacks a key
HasBadDiff(p) ==
    /\ ParsedObject(p)
    /\ "recent_diffs" \in DOMAIN input_data[p].fields
    /\ \E i \in DOMAIN input_data[p].fields.recent_diffs :
         DOMAIN input_data[p].fields.recent_diffs[i] # {"file_path", "original", "updated"}

\* the exception that reached main is none of the named kinds
OtherFailure(p) == raised[p].type \notin {"none", "SystemExit", "JSONDecodeError"}

UnexpectedEnvelope(p) == << [error |-> "unexpected", message |-> raised[p].message] >>

\* C9 as stated: every failure other than the named kinds ends in the
\* unexpected envelope with exit status 1, among them every parsed JSON value
\* that is not an object and every recent_diffs entry lacking a key that
\* prompt building meets; every terminated invocation printed an envelope.
C9_NonObjectIsUnexpected ==
    \A p \in Procs :
        Done(p) =>
            /\ Len(stdout[p]) = 1
            /\ IsPredictionResult(stdout[p][1]) \/ IsErrorEnvelope(stdout[p][1])
            /\ OtherFailure(p) => (stdout[p] = UnexpectedEnvelope(p) /\ exitCode[p] = 1)
            /\ (HasBadDiff(p) /\ Has(p, "build_prompt")) =>
                 (stdout[p][1].error = "unexpected" /\ exitCode[p] = 1)
            /\ ParsedNonObject(p) =>
                 (stdout[p][1].error = "unexpected" /\ exitCode[p] = 1)

\* C9 amended: every exception other than the named kinds ends in the
\* unexpected envelope with the exception's message and exit status 1: a
\* recent_diffs entry lacking a key, or an array or string, once prompt
\* building is reached, and a number, true, false or null at the membership
\* test.  An array or string lacking a required name raises nothing and is
\* reported as missing_field with exit status 1.  Every terminated invocation
\* printed an envelope.
C9_OtherFailuresUnexpected ==
    \A p \in Procs :
        Done(p) =>
            /\ Len(stdout[p]) = 1
            /\ IsPredictionResult(stdout[p][1]) \/ IsErrorEnvelope(stdout[p][1])
            /\ OtherFailure(p) => (stdout[p] = UnexpectedEnvelope(p) /\ exitCode[p] = 1)
            /\ (HasBadDiff(p) /\ Has(p, "build_prompt")) =>
                 (raised[p].type = "KeyError" /\ OtherFailure(p))
            /\ (ParsedNonObject(p) /\ Has(p, "build_prompt")) =>
                 (raised[p].type = "AttributeError" /\ OtherFailure(p))
            /\ input_data[p].shape = "number" =>
                 (raised[p].type = "TypeError" /\ OtherFailure(p))
            /\ (input_data[p].shape \in {"array", "string"}
                    /\ RequiredNames \ input_data[p].items # {}) =>
                 /\ stdout[p][1].error = "missing_field"
                 /\ exitCode[p] = 1
                 /\ ~OtherFailure(p)

\* the second recent_diffs entry lacked "updated" and prompt building raised
C9_Witness ==
    /\ Done(1)
    /\ HasBadDiff(1)
    /\ raised[1] = [type |-> "KeyError", message |-> "'updated'"]
    /\ stdout[1] = << [error |-> "unexpected", message |-> "'updated'"] >>
    /\ exitCode[1] = 1

-----------------------------------------------------------------------------
(* Properties of the prompt *)

\* the invocation has built its prompt
Built(p) == Has(p, "build_prompt") /\ Len(prompt[p]) > 0

\* the request object on standard input
Request(p) == Strip(stdin[p])[1].value.fields

RequestContext(p) ==
    IF "context_files" \in DOMAIN Request(p) THEN Request(p).context_files ELSE << >>
RequestDiffs(p) ==
    IF "recent_diffs" \in DOMAIN Request(p) THEN Request(p).recent_diffs ELSE << >>

\* number of delimiter tokens in a text
RECURSIVE CountSep(_)
CountSep(text) ==
    IF Len(text) = 0 THEN 0
    ELSE (IF Head(text) = file_sep THEN 1 ELSE 0) + CountSep(Tail(text))

\* the token after each delimiter token of a text, in order
RECURSIVE SectionTags(_)
SectionTags(text) ==
    IF Len(text) < 2 THEN << >>
    ELSE IF Head(text) = file_sep THEN <<text[2]>> \o SectionTags(Tail(text))
    ELSE SectionTags(Tail(text))

\* no path or content of the request holds the delimiter token
DelimiterFree(p) ==
    LET r == Request(p) IN
    /\ CountSep(r.file_path) = 0
    /\ CountSep(r.current_content) = 0
    /\ "original_content" \in DOMAIN r => CountSep(r.original_content) = 0
    /\ \A i \in DOMAIN RequestContext(p) :
         CountSep(RequestContext(p)[i][1]) + CountSep(RequestContext(p)[i][2]) = 0
    /\ \A i \in DOMAIN RequestDiffs(p) :
         CountSep(RequestDiffs(p)[i].file_path) + CountSep(RequestDiffs(p)[i].original)
           + CountSep(RequestDiffs(p)[i].updated) = 0

\* C11: for delimiter-free inputs the prompt holds exactly
\* |context_files| + |recent_diffs| + 3 delimiter-introduced sections; with
\* no context files and no diffs these are original/, current/ and updated/.
C11_SectionCount ==
    \A p \in Procs :
        (Built(p) /\ DelimiterFree(p)) =>
            /\ CountSep(prompt[p]) = Len(RequestContext(p)) + Len(RequestDiffs(p)) + 3
            /\ (Len(RequestContext(p)) = 0 /\ Len(RequestDiffs(p)) = 0) =>
                 SectionTags(prompt[p]) = <<"original/", "current/", "updated/">>

\* a prompt of two context files and two diffs, seven sections
C11_Witness ==
    /\ Built(1)
    /\ DelimiterFree(1)
    /\ Len(RequestContext(1)) = 2
    /\ Len(RequestDiffs(1)) = 2
    /\ CountSep(prompt[1]) = 7

\* the text of the context sections, each line ended by a newline
RECURSIVE ContextText(_)
ContextText(c) ==
    IF Len(c) = 0 THEN << >>
    ELSE <<file_sep>> \o c[1][1] \o <<NL>> \o c[1][2] \o <<NL>> \o ContextText(Tail(c))

\* the text of the diff sections, each line ended by a newline
RECURSIVE DiffText(_)
DiffText(d) ==
    IF Len(d) = 0 THEN << >>
    ELSE <<file_sep>> \o d[1].file_path \o <<".diff", NL, "original:", NL>>
         \o d[1].original \o <<NL, "updated:", NL>> \o d[1].updated \o <<NL>>
         \o DiffText(Tail(d))

\* the original/, current/ and updated/ sections for a given original text
Tail3(file_path, original, current) ==
    <<file_sep, "original/">> \o file_path \o <<NL>> \o original \o <<NL>>
    \o <<file_sep, "current/">> \o file_path \o <<NL>> \o current \o <<NL>>
    \o <<file_sep, "updated/">> \o file_path

\* the original text build_prompt was called with
OriginalArgument(p) ==
    IF "original_content" \in DOMAIN Request(p)
    THEN Request(p).original_content
    ELSE Request(p).current_content

\* C14: the prompt is the context sections in insertion order, the diff
\* sections in the given order, the original/ section, the current/ section
\* and last the updated/ header with nothing after it.
C14_PromptFormat ==
    \A p \in Procs :
        Built(p) =>
            /\ prompt[p] = ContextText(RequestContext(p)) \o DiffText(RequestDiffs(p))
                           \o Tail3(Request(p).file_path, OriginalArgument(p),
                                    Request(p).current_content)
            /\ SubSeq(prompt[p], Len(prompt[p]) - Len(Request(p).file_path) - 1,
                      Len(prompt[p]))
                 = <<file_sep, "updated/">> \o Request(p).file_path

\* a prompt whose two context files and two diffs each differ
C14_Witness ==
    /\ Built(1)
    /\ Len(RequestContext(1)) = 2
    /\ Len(RequestDiffs(1)) = 2
    /\ RequestDiffs(1)[1] # RequestDiffs(1)[2]
    /\ RequestContext(1)[1][1] = Path3

\* the last n tokens of a text
Suffix(text, n) == SubSeq(text, Len(text) - n + 1, Len(text))

\* C20: the prompt ends with the original/ section holding current_content
\* when the request omits original_content, and holding the given
\* original_content (an empty one too) when the request carries it.
C20_OriginalDefault ==
    \A p \in Procs :
        Built(p) =>
            LET r == Request(p)
                given == "original_content" \in DOMAIN r
                want == Tail3(r.file_path,
                              IF given THEN r.original_content ELSE r.current_content,
                              r.current_content)
            IN /\ Len(prompt[p]) >= Len(want)
               /\ Suffix(prompt[p], Len(want)) = want

\* a request without original_content: after its one context section the
\* original/ and current/ sections hold the same text
C20_Witness ==
    /\ Built(1)
    /\ "original_content" \notin DOMAIN Request(1)
    /\ Len(RequestContext(1)) = 1
    /\ prompt[1] = ContextText(RequestContext(1))
                   \o Tail3(Path1, Request(1).current_content, Request(1).current_content)

-----------------------------------------------------------------------------
(* Properties of the order of the steps *)

\* the position of the first occurrence of a step in the trace
Pos(p, step) == CHOOSE i \in DOMAIN trace[p] : trace[p][i] = step
\* how often the invocation executed a step
Count(p, step) == Cardinality({ i \in DOMAIN trace[p] : trace[p][i] = step })
\* the first step was executed, and before the second
Before(p, first, second) ==
    Has(p, first) /\ (Has(p, second) => Pos(p, first) < Pos(p, second))

\* C15 as stated: the model artifact is resolved only after the prompt has
\* been built, so an invocation whose prompt building fails never resolves
\* the model or downloads it.
C15_PromptBeforeModel ==
    \A p \in Procs :
        /\ Has(p, "exists") => (Built(p) /\ Pos(p, "build_prompt") < Pos(p, "exists"))
        /\ (Has(p, "build_prompt") /\ ~Built(p)) =>
              (~Has(p, "exists") /\ ~Has(p, "download"))

\* C15 amended: the steps run in the order runtime import, model resolution
\* (with its download), prompt building, model load, generation: the prompt
\* is built only after the model path is resolved, so an invocation whose
\* prompt building fails has resolved the model, and downloaded it on a cold
\* cache, before.
C15_ModelBeforePrompt ==
    \A p \in Procs :
        /\ Has(p, "exists") => Before(p, "predict", "exists")
        /\ Has(p, "download") => Before(p, "exists", "download")
        /\ Has(p, "build_prompt") =>
              /\ Before(p, "exists", "build_prompt")
              /\ Has(p, "download") => Pos(p, "download") < Pos(p, "build_prompt")
              /\ model_path[p] = <<MODEL_DIR, MODEL_FILENAME>>
        /\ Has(p, "load") => (Built(p) /\ Before(p, "build_prompt", "load"))
        /\ Has(p, "generate") => Before(p, "load", "generate")

\* a request whose recent_diffs entry lacks a key downloaded the model on a
\* cold cache and then failed in build_prompt
C15_Witness ==
    /\ Done(1)
    /\ HasBadDiff(1)
    /\ raised[1].type = "KeyError"
    /\ trace[1] = <<"read", "json.loads", "validate", "predict", "exists", "download",
                    "build_prompt">>
    /\ network = 1
    /\ modelPresent

\* the invocation found both required names and the inference runtime
ReachedModelLocator(p) ==
    /\ ~Blank(stdin[p])
    /\ ~Unparseable(stdin[p])
    /\ Has(p, "json.loads")
    /\ input_data[p].shape \in {"object", "array", "string"}
    /\ IF input_data[p].shape = "object"
       THEN RequiredNames \subseteq DOMAIN input_data[p].fields
       ELSE RequiredNames \subseteq input_data[p].items
    /\ Has(p, "predict")
    /\ result[p] # LlamaMissingResult

\* C16: the cache directory is looked at only by an invocation whose input
\* was not blank, parsed, held both required names and found the inference
\* runtime; a download is entered only after that invocation saw the cache
\* cold, and the registry is accessed only while the artifact is absent; an
\* invocation that ends in no_input, invalid_json, missing_field or with the
\* runtime missing has not touched the cache, and none of the steps before
\* model resolution changes the disk.
C16_LazyResolution ==
    /\ [](\A p \in Procs :
            /\ Has(p, "exists") => ReachedModelLocator(p)
            /\ Has(p, "download") =>
                 /\ ReachedModelLocator(p)
                 /\ Len(stderr[p]) >= 1
                 /\ stderr[p][1].status = "downloading"
            /\ (Done(p) /\ Len(stdout[p]) = 1 /\ "error" \in DOMAIN stdout[p][1]
                  /\ stdout[p][1].error \in {"no_input", "invalid_json", "missing_field",
                                             "llama_cpp not installed"}) =>
                 (~Has(p, "exists") /\ ~Has(p, "download")))
    /\ [][ /\ network' # network => ~modelPresent
           /\ (\E p \in Procs : pc[p] \in {"read", "parse", "validate", "predict"}) =>
                 UNCHANGED diskVars ]_vars

\* a valid request on a cold cache has accessed the registry
C16_Witness ==
    /\ Has(1, "download")
    /\ ReachedModelLocator(1)
    /\ pc[1] = "build_prompt"
    /\ network = 1
    /\ modelPresent

\* the invocation has met a failure
Failed(p) ==
    \/ caught[p] # NoException
    \/ raised[p].type # "none"
    \/ "error" \in DOMAIN result[p]

\* C17: an invocation executes each pipeline step at most once, and once a
\* step has failed nothing is left to it but printing the envelope.
C17_NoRetry ==
    \A p \in Procs :
        /\ \A step \in {"exists", "download", "build_prompt", "load", "generate", "print"} :
             Count(p, step) <= 1
        /\ Failed(p) => pc[p] \in {"emit", "done"}
        /\ (Failed(p) /\ Done(p)) =>
             \A i \in DOMAIN trace[p] :
                (i < Len(trace[p]) /\ trace[p][i] \in {"download", "load", "generate"})
                   => trace[p][i + 1] # trace[p][i]

\* the model load failed: generation was not attempted
C17_Witness ==
    /\ Done(1)
    /\ caught[1].type = "ValueError"
    /\ Has(1, "load")
    /\ ~Has(1, "generate")
    /\ Count(1, "download") = 1

\* the invocation went through the registry fetch of get_model_path
Fetched(p) ==
    /\ Has(p, "download")
    /\ pc[p] # "download"
    /\ caught[p].type \notin {"ImportError", "PermissionError"}

\* C18: two concurrent invocations are not excluded from one another: each
\* one that saw the cache cold performs its own registry fetch, and each
\* prints exactly one object.
C18_RaceBothDownload ==
    /\ \A p \in Procs :
         /\ Len(stdout[p]) <= 1
         /\ Done(p) => Len(stdout[p]) = 1
    /\ invocations = 2 => network = Cardinality({ p \in Procs : Fetched(p) })

\* both invocations saw the artifact absent, both fetched it, both printed
\* one object
C18_Witness ==
    /\ invocations = 2
    /\ \A p \in Procs :
         /\ Done(p)
         /\ Fetched(p)
         /\ Len(stderr[p]) = 2
         /\ Len(stdout[p]) = 1
         /\ IsPredictionResult(stdout[p][1])
    /\ network = 2

\* C19: a failed acquisition leaves the artifact absent: after an invocation
\* that ended in download_failed or with the download capability missing the
\* cache is cold, starting the next invocation leaves it cold, and an
\* invocation that finds it cold enters the download again.
C19_FailedDownloadLeavesCold ==
    /\ [](\A p \in Procs : AcquisitionFailed(p) => ~modelPresent)
    /\ [][ \A p \in Procs :
             /\ (AcquisitionFailed(p) /\ pc'[p] = "read") => ~modelPresent'
             /\ (pc[p] = "get_model_path" /\ ~modelPresent /\ pc'[p] # pc[p]) =>
                   pc'[p] = "download" ]_vars

\* two invocations in a row fetched and failed: the second one tried again
C19_Witness ==
    /\ AcquisitionFailed(1)
    /\ caught[1].type = "ConnectionError"
    /\ network = 2
    /\ ~modelPresent
    /\ invocations >= 2

-----------------------------------------------------------------------------
(* Properties of the permission hook *)

\* the text on the hook's standard input is a JSON object whose tool_name is
\* the string AskUserQuestion
AsksUser(text) ==
    /\ json_loads(text).ok
    /\ json_loads(text).value.shape = "object"
    /\ "tool_name" \in DOMAIN json_loads(text).value.fields
    /\ json_loads(text).value.fields.tool_name = Str("AskUserQuestion")

\* the environment variable ZEROSHOT_BLOCK_ASK_USER equals "1"
FlagIsOne ==
    \E name \in DOMAIN hook_env : name = "ZEROSHOT_BLOCK_ASK_USER" /\ hook_env[name] = "1"

\* C12: the hook prints the deny decision, once, exactly when the flag is "1"
\* and the input's tool_name is AskUserQuestion; in every other case, and
\* before it ends, its standard output is empty.
C12_DenyExactlyWhenAsked ==
    /\ hook_pc # "done" => hook_stdout = << >>
    /\ hook_pc = "done" =>
         IF FlagIsOne /\ AsksUser(hook_stdin)
         THEN /\ hook_stdout = <<DenyOutput>>
              /\ DenyOutput.hookSpecificOutput.permissionDecision = "deny"
         ELSE hook_stdout = << >>

\* the flag is "1" and AskUserQuestion is asked for: the decision is printed
C12_Witness ==
    /\ hook_pc = "done"
    /\ FlagIsOne
    /\ Len(hook_stdin) = 3
    /\ AsksUser(hook_stdin)
    /\ hook_input.shape = "object"
    /\ hook_stdout = <<DenyOutput>>

\* C13: the hook ends with status 0 on every input and in every environment.
C13_AlwaysExitsZero ==
    hook_pc = "done" => hook_exit = 0

====
